---------------------------- MODULE Spec2Model ----------------------------
(***************************************************************************)
(* Model of the Quantum ESPRESSO (CMake) easyblock,                        *)
(* easybuild/easyblocks/q/quantumespressocmake.py.                         *)
(*                                                                         *)
(* One easyblock instance: the build arguments (cfg['configopts']), the    *)
(* list of expected binaries (self.check_bins), the LDFLAGS environment    *)
(* entry, and the three hooks configure_step, test_step and                *)
(* sanity_check_step.  Strings the code parses or formats (version         *)
(* strings, harness output lines, '%d') are sequences of one-character     *)
(* strings; strings the code only passes on are TLA+ strings.              *)
(***************************************************************************)
EXTENDS Integers, Sequences, FiniteSets, TLC

VARIABLES
    configopts,    \* cfg['configopts']: the sequence of arguments appended so far
    check_bins,    \* self.check_bins
    ldflags,       \* os.environ['LDFLAGS']: the sequence of fragments appended so far
    op,            \* the hook that ran last: "init", "configure", "test", "sanity"
    result,        \* how the last hook ended: "ok" or the error it raised
    req,           \* the configuration snapshot the last configure_step read
    pre,           \* configopts, check_bins, ldflags as they were before the last hook
    calls,         \* number of hook calls made on this instance
    targets,       \* cfg['buildopts'].split() of the last sanity_check_step
    custom_paths,  \* the 'files' list handed to the generic sanity check
    tin,           \* the settings and harness output the last test_step read
    cmd,           \* the ctest command line of the last test_step
    failures       \* the unallowed failure lines test_step collected

vars == << configopts, check_bins, ldflags, op, result, req, pre, calls,
           targets, custom_paths, tin, cmd, failures >>

confVars == << configopts, check_bins, ldflags >>
sanityVars == << targets, custom_paths >>
testVars == << tin, cmd, failures >>

(***************************************************************************)
(* Bounds of the model.                                                    *)
(***************************************************************************)
MaxConfigureCalls == 2
MaxCalls == 3
MaxTargets == 2
MaxLines == 2
MaxParallel == 4
MaxNprocs == 2

(***************************************************************************)
(* Generic sequence helpers.                                               *)
(***************************************************************************)
ToSet(s) == { s[i] : i \in 1..Len(s) }

SeqsUpTo(S, n) == UNION { [1..k -> S] : k \in 0..n }

RECURSIVE Join(_, _)
\* sep.join(parts), as the sequence of the parts with sep between them
Join(parts, sep) ==
    IF Len(parts) = 0 THEN << >>
    ELSE IF Len(parts) = 1 THEN << parts[1] >>
    ELSE << parts[1], sep >> \o Join(Tail(parts), sep)

(***************************************************************************)
(* Decimal digits: int() of a digit run and '%d' of an integer.            *)
(***************************************************************************)
Digits == << "0", "1", "2", "3", "4", "5", "6", "7", "8", "9" >>

IsDigit(c) == c \in ToSet(Digits)

DigitVal(c) == (CHOOSE i \in 1..10 : Digits[i] = c) - 1

RECURSIVE ParseInt(_, _)
\* int(ds) of a run of decimal digits, most significant first; acc is the value so far
ParseInt(ds, acc) ==
    IF Len(ds) = 0 THEN acc
    ELSE ParseInt(Tail(ds), 10 * acc + DigitVal(Head(ds)))

RECURSIVE NatToDigits(_)
NatToDigits(n) ==
    IF n < 10 THEN << Digits[n + 1] >>
    ELSE NatToDigits(n \div 10) \o << Digits[(n % 10) + 1] >>

\* '%d' % n
FormatInt(n) == IF n < 0 THEN << "-" >> \o NatToDigits(0 - n) ELSE NatToDigits(n)

(***************************************************************************)
(* LooseVersion: a version string is cut at the dots, every run of digits  *)
(* becomes an integer, and two versions compare as Python lists do.        *)
(***************************************************************************)
RECURSIVE VersionComponents(_, _)
\* the components of the version string s; cur is the digit run being read
VersionComponents(s, cur) ==
    IF Len(s) = 0 THEN (IF Len(cur) = 0 THEN << >> ELSE << ParseInt(cur, 0) >>)
    ELSE IF Head(s) = "."
         THEN (IF Len(cur) = 0 THEN << >> ELSE << ParseInt(cur, 0) >>)
              \o VersionComponents(Tail(s), << >>)
         ELSE VersionComponents(Tail(s), Append(cur, Head(s)))

LooseVersion(s) == VersionComponents(s, << >>)

RECURSIVE ListLess(_, _)
\* a < b for two Python lists of integers
ListLess(a, b) ==
    IF Len(b) = 0 THEN FALSE
    ELSE IF Len(a) = 0 THEN TRUE
    ELSE IF Head(a) # Head(b) THEN Head(a) < Head(b)
    ELSE ListLess(Tail(a), Tail(b))

V_7_0 == << "7", ".", "0" >>
V_7_3 == << "7", ".", "3" >>
V_7_3_1 == << "7", ".", "3", ".", "1" >>

V_6_8 == << "6", ".", "8" >>
V_7_2 == << "7", ".", "2" >>
V_7_4 == << "7", ".", "4" >>
V_7_10 == << "7", ".", "1", "0" >>

Versions == { V_6_8, V_7_0, V_7_2, V_7_3, V_7_3_1, V_7_4, V_7_10 }

(***************************************************************************)
(* The configuration snapshot configure_step reads: easyconfig parameters, *)
(* toolchain options, the compiler family and the loaded dependencies.     *)
(***************************************************************************)
INTELCOMP == "Intel"

Requests ==
    [ version : Versions,
      usempi : BOOLEAN, openmp : BOOLEAN,
      with_cuda : BOOLEAN, with_scalapack : BOOLEAN, with_fox : BOOLEAN,
      with_gipaw : BOOLEAN, with_d3q : BOOLEAN, with_qmcpack : BOOLEAN,
      deps : SUBSET { "HDF5", "libxc", "ELPA" },
      build_shared_libs : BOOLEAN, comp_fam : { "GCC", INTELCOMP },
      test_suite_nprocs : { 1, 12 } ]

\* the defaults of extra_options, on a GCC toolchain with MPI
DefaultRequest ==
    [ version |-> V_7_3,
      usempi |-> TRUE, openmp |-> FALSE,
      with_cuda |-> FALSE, with_scalapack |-> TRUE, with_fox |-> FALSE,
      with_gipaw |-> TRUE, with_d3q |-> FALSE, with_qmcpack |-> FALSE,
      deps |-> { },
      build_shared_libs |-> FALSE, comp_fam |-> "GCC",
      test_suite_nprocs |-> 1 ]

\* the EasyBuildError messages configure_step raises
ERR_VERSION == "EB QuantumEspresso cmake is implemented for versions >= 7.3"

ERR_MPI == "ScaLAPACK support requires MPI"

ERR_ELPA_SCALAPACK == "ELPA support requires ScaLAPACK"

ERR_ELPA_OPENMP == "QE 7.3 with cmake does not support ELPA with OpenMP"

ERR_GIPAW == "GIPAW will fail to compile in QE 7.3.1"

ERR_D3Q == "D3Q is not supported in QE 7.0+"

get_software_root(r, name) == name \in r.deps

(***************************************************************************)
(* The running state of one configure_step call: m.err is "none" until an  *)
(* EasyBuildError is raised; a raised error skips the rest of the call and *)
(* leaves what was assigned before it in place.                            *)
(***************************************************************************)
Update(m, arg) == [ m EXCEPT !.configopts = Append(@, arg) ]

Raise(m, e) == [ m EXCEPT !.err = e ]

_add_mpi(m, r) ==
    IF r.usempi THEN Update(m, << "-DENABLE_MPI=ON" >>) ELSE m

_add_openmp(m, r) ==
    IF r.openmp THEN Update(m, << "-DENABLE_OPENMP=ON" >>) ELSE m

_add_cuda(m, r) ==
    IF r.with_cuda
    THEN Update(Update(m, << "-DQE_ENABLE_CUDA=ON" >>), << "-DQE_ENABLE_OPENACC=ON" >>)
    ELSE m

_add_toolchains_opts(m, r) == _add_cuda(_add_openmp(_add_mpi(m, r), r), r)

\* Variant of _add_scalapack without the MPI prerequisite.
_add_scalapack_NoMpiCheck(m, r) ==
    IF m.err # "none" THEN m
    ELSE IF r.with_scalapack THEN Update(m, << "-DQE_ENABLE_SCALAPACK=ON" >>) ELSE m

_add_scalapack(m, r) ==
    IF m.err # "none" THEN m
    ELSE IF r.with_scalapack
         THEN IF ~ r.usempi
              THEN Raise(m, ERR_MPI)
              ELSE Update(m, << "-DQE_ENABLE_SCALAPACK=ON" >>)
         ELSE m

_add_fox(m, r) ==
    IF m.err # "none" THEN m
    ELSE IF r.with_fox THEN Update(m, << "-DQE_ENABLE_FOX=ON" >>) ELSE m

_add_libxc(m, r) ==
    IF m.err # "none" THEN m
    ELSE IF get_software_root(r, "libxc") THEN Update(m, << "-DQE_ENABLE_LIBXC=ON" >>) ELSE m

_add_elpa(m, r) ==
    IF m.err # "none" THEN m
    ELSE IF get_software_root(r, "ELPA")
         THEN IF ~ r.with_scalapack
              THEN Raise(m, ERR_ELPA_SCALAPACK)
              ELSE IF LooseVersion(r.version) = LooseVersion(V_7_3) /\ r.openmp
                   THEN Raise(m, ERR_ELPA_OPENMP)
                   ELSE Update(m, << "-DQE_ENABLE_ELPA=ON" >>)
         ELSE m

_add_hdf5(m, r) ==
    IF m.err # "none" THEN m
    ELSE IF get_software_root(r, "HDF5") THEN Update(m, << "-DQE_ENABLE_HDF5=ON" >>) ELSE m

_add_libraries(m, r) ==
    _add_hdf5(_add_elpa(_add_libxc(_add_fox(_add_scalapack(m, r), r), r), r), r)

D3Q_BINS ==
    << "d3_asr3.x", "d3_lw.x", "d3_q2r.x", "d3_qq2rr.x", "d3q.x", "d3_r2q.x",
       "d3_recenter.x", "d3_sparse.x", "d3_sqom.x", "d3_tk.x" >>

_add_gipaw(m, r) ==
    IF m.err # "none" THEN m
    ELSE IF r.with_gipaw
         THEN IF LooseVersion(r.version) = LooseVersion(V_7_3_1)
              THEN Raise(m, ERR_GIPAW)
              ELSE [ m EXCEPT !.plugins = @ \o << "gipaw" >>,
                              !.check_bins = @ \o << "gipaw.x" >> ]
         ELSE m

_add_d3q(m, r) ==
    IF m.err # "none" THEN m
    ELSE IF r.with_d3q
         THEN IF ListLess(LooseVersion(V_7_0), LooseVersion(r.version))
              THEN Raise(m, ERR_D3Q)
              ELSE [ m EXCEPT !.plugins = @ \o << "d3q" >>,
                              !.check_bins = @ \o D3Q_BINS ]
         ELSE m

_add_qmcpack(m, r) ==
    IF m.err # "none" THEN m
    ELSE IF r.with_qmcpack
         THEN [ m EXCEPT !.plugins = @ \o << "pw2qmcpack" >>,
                         !.check_bins = @ \o << "pw2qmcpack.x" >> ]
         ELSE m

PluginsArg(plugins) == << "-DQE_ENABLE_PLUGINS=" >> \o Join(plugins, ";")

_add_plugins(m, r) ==
    LET p == _add_qmcpack(_add_d3q(_add_gipaw([ m EXCEPT !.plugins = << >> ], r), r), r)
    IN  IF p.err # "none" THEN p
        ELSE IF Len(p.plugins) > 0 THEN Update(p, PluginsArg(p.plugins)) ELSE p

\* Variant of BelowMinimum with the D3Q cutoff 7.0 as the minimum.
BelowMinimum_7_0(r) == ListLess(LooseVersion(r.version), LooseVersion(V_7_0))

\* LooseVersion(self.version) < LooseVersion('7.3')
BelowMinimum(r) == ListLess(LooseVersion(r.version), LooseVersion(V_7_3))

configure_step(m, r) ==
    IF BelowMinimum(r)
    THEN Raise(m, ERR_VERSION)
    ELSE LET a == _add_plugins(_add_libraries(_add_toolchains_opts(m, r), r), r)
             b == Update(Update(Update(a,
                      << "-DQE_ENABLE_TEST=ON" >>),
                      << "-DTESTCODE_NPROCS=" >> \o FormatInt(r.test_suite_nprocs)),
                      << "-DQE_CLOCK_SECONDS=ON" >>)
         IN  IF a.err # "none" THEN a
             ELSE IF r.build_shared_libs /\ r.comp_fam = INTELCOMP
                  THEN [ b EXCEPT !.ldflags = Append(@, " -Wl,--copy-dt-needed-entries ") ]
                  ELSE b

Snapshot == [ configopts |-> configopts, check_bins |-> check_bins, ldflags |-> ldflags ]

\* One call of the configure hook with the configuration snapshot r.  The generic
\* CMake configure_step it ends with reads configopts and changes none of this state.
ConfigureStep(r) ==
    LET m == configure_step([ configopts |-> configopts, check_bins |-> check_bins,
                              ldflags |-> ldflags, plugins |-> << >>, err |-> "none" ], r)
    IN  /\ configopts' = m.configopts
        /\ check_bins' = m.check_bins
        /\ ldflags' = m.ldflags
        /\ result' = IF m.err = "none" THEN "ok" ELSE m.err
        /\ op' = "configure"
        /\ req' = r
        /\ pre' = Snapshot
        /\ calls' = calls + 1
        /\ UNCHANGED << sanityVars, testVars >>

(***************************************************************************)
(* A new instance: __init__ sets check_bins to []; nothing has run.        *)
(***************************************************************************)
NoTest ==
    [ out |-> << >>, allow_fail |-> << >>, thr |-> 970, max_failed |-> 0,
      parallel |-> 1, nprocs |-> 1 ]

InitWith(r) ==
    /\ configopts = << >>
    /\ check_bins = << >>
    /\ ldflags = << >>
    /\ op = "init"
    /\ result = "ok"
    /\ req = r
    /\ pre = [ configopts |-> << >>, check_bins |-> << >>, ldflags |-> << >> ]
    /\ calls = 0
    /\ targets = << >>
    /\ custom_paths = << >>
    /\ tin = NoTest
    /\ cmd = << >>
    /\ failures = << >>

(***************************************************************************)
(* SpecResolve: the configure hook under every configuration snapshot,     *)
(* called up to MaxConfigureCalls times on the instance.                   *)
(***************************************************************************)
InitResolve == \E r \in Requests : InitWith(r)

NextResolve == calls < MaxConfigureCalls /\ ConfigureStep(req)

SpecResolve == InitResolve /\ [][NextResolve]_vars

(***************************************************************************)
(* sanity_check_step: the binaries of every build target, and the targets  *)
(* that select them.                                                       *)
(***************************************************************************)
CP_BINS == << "cp.x", "cppp.x", "manycp.x", "wfdd.x" >>

EPW_BINS == << "epw.x" >>

GWL_BINS ==
    << "abcoeff_to_eps.x", "bse_main.x", "graph.x", "gww_fit.x", "gww.x", "head.x",
       "memory_pw4gww.x", "pw4gww.x", "simple_bse.x", "simple_ip.x", "simple.x" >>

HP_BINS == << "hp.x" >>

LD1_BINS == << "ld1.x" >>

NEB_BINS == << "neb.x", "path_interpolation.x" >>

PH_BINS ==
    << "alpha2f.x", "dynmat.x", "fd_ef.x", "fd.x", "lambda.x", "phcg.x", "postahc.x",
       "q2r.x", "dvscf_q2r.x", "epa.x", "fd_ifc.x", "fqha.x", "matdyn.x", "ph.x",
       "q2qstar.x" >>

PP_BINS ==
    << "average.x", "dos_sp.x", "ef.x", "fermi_int_0.x", "fermi_proj.x", "fs.x",
       "molecularpdos.x", "pawplot.x", "plotband.x", "plotrho.x", "ppacf.x", "pp.x",
       "pw2bgw.x", "pw2gt.x", "pw2wannier90.x", "wannier_ham.x", "wfck2r.x", "bands.x",
       "dos.x", "epsilon.x", "fermi_int_1.x", "fermi_velocity.x", "initial_state.x",
       "open_grid.x", "plan_avg.x", "plotproj.x", "pmw.x", "pprism.x", "projwfc.x",
       "pw2critic.x", "pw2gw.x", "sumpdos.x", "wannier_plot.x" >>

PW_BINS ==
    << "cell2ibrav.x", "ev.x", "ibrav2cell.x", "kpoints.x", "pwi2xsf.x", "pw.x",
       "scan_ibrav.x" >>

PWCOND_BINS == << "pwcond.x" >>

TDDFPT_BINS ==
    << "turbo_davidson.x", "turbo_eels.x", "turbo_lanczos.x", "turbo_magnon.x",
       "turbo_spectrum.x" >>

UPF_BINS == << "upfconv.x", "virtual_v2.x" >>

XSPECTRA_BINS == << "molecularnexafs.x", "spectra_correction.x", "xspectra.x" >>

\* Variant of all_cond that knows only the empty target list.
all_cond_EmptyOnly(tgts) == Len(tgts) = 0

\* 'make' or 'make all_currents'
all_cond(tgts) == Len(tgts) = 0 \/ "all_currents" \in ToSet(tgts)

\* Variant of pwall_cond that looks for a misspelt token.
pwall_cond_Typo(tgts) == "pw_all" \in ToSet(tgts)

pwall_cond(tgts) == "pwall" \in ToSet(tgts)

\* check_bins after the target branches of sanity_check_step, from check_bins = bins
sanity_check_step(bins, tgts) ==
    LET a == all_cond(tgts)
        p == pwall_cond(tgts)
        T == ToSet(tgts)
        If(c, xs) == IF c THEN xs ELSE << >>
    IN  bins
        \o If(a \/ "cp" \in T, CP_BINS)
        \o If(a \/ "epw" \in T, EPW_BINS)
        \o If(a \/ "gwl" \in T, GWL_BINS)
        \o If(a \/ "hp" \in T, HP_BINS)
        \o If(a \/ "ld1" \in T, LD1_BINS)
        \o If(a \/ p \/ "neb" \in T, NEB_BINS)
        \o If(a \/ p \/ "ph" \in T, PH_BINS)
        \o If(a \/ p \/ "pp" \in T, PP_BINS)
        \o If(a \/ p \/ "pw" \in T, PW_BINS)
        \o If(a \/ p \/ "pwcond" \in T, PWCOND_BINS)
        \o If(a \/ "tddfpt" \in T, TDDFPT_BINS)
        \o If(a \/ "upf" \in T, UPF_BINS)
        \o If(a \/ "xspectra" \in T, XSPECTRA_BINS)

\* [os.path.join('bin', x) for x in bins]
BinPaths(bins) == [ i \in 1..Len(bins) |-> << "bin", bins[i] >> ]

\* One call of the verify hook with cfg['buildopts'].split() = tgts.  The generic
\* sanity check it ends with receives custom_paths; every file is taken to exist.
SanityCheckStep(tgts) ==
    /\ check_bins' = sanity_check_step(check_bins, tgts)
    /\ custom_paths' = BinPaths(check_bins')
    /\ targets' = tgts
    /\ op' = "sanity"
    /\ result' = "ok"
    /\ pre' = Snapshot
    /\ calls' = calls + 1
    /\ UNCHANGED << configopts, ldflags, req, testVars >>

CatalogTargets ==
    { "cp", "epw", "gwl", "hp", "ld1", "neb", "ph", "pp", "pw", "pwcond", "tddfpt",
      "upf", "xspectra" }

\* what cfg['buildopts'] may name: the catalog's targets, the two umbrella
\* targets, and CMake's own 'all'
Tokens == CatalogTargets \cup { "all_currents", "pwall", "all" }

(***************************************************************************)
(* SpecDerive: one sanity_check_step call on a new instance, for every     *)
(* target list of up to MaxTargets tokens.                                 *)
(***************************************************************************)
InitDefault == InitWith(DefaultRequest)

NextDerive == calls = 0 /\ \E tgts \in SeqsUpTo(Tokens, MaxTargets) : SanityCheckStep(tgts)

SpecDerive == InitDefault /\ [][NextDerive]_vars

(***************************************************************************)
(* test_step: harness output lines are sequences of characters.            *)
(***************************************************************************)
PASSED_LIT ==
    << "%", " ", "t", "e", "s", "t", "s", " ", "p", "a", "s", "s", "e", "d", "," >>

FAILED_LIT ==
    << "t", "e", "s", "t", "s", " ", "f", "a", "i", "l", "e", "d", " ", "o", "u", "t",
       " ", "o", "f" >>

FAILED_MARK ==
    << "*", "*", "*", "F", "a", "i", "l", "e", "d" >>

RECURSIVE SkipSpaces(_)
SkipSpaces(s) == IF Len(s) > 0 /\ Head(s) = " " THEN SkipSpaces(Tail(s)) ELSE s

RECURSIVE TakeDigits(_)
\* the longest run of digits s starts with
TakeDigits(s) ==
    IF Len(s) > 0 /\ IsDigit(Head(s)) THEN << Head(s) >> \o TakeDigits(Tail(s)) ELSE << >>

Drop(s, n) == SubSeq(s, n + 1, Len(s))

StartsWith(s, lit) == Len(s) >= Len(lit) /\ SubSeq(s, 1, Len(lit)) = lit

\* sub in line
Contains(line, sub) ==
    \E i \in 0..(Len(line) - Len(sub)) : SubSeq(line, i + 1, i + Len(sub)) = sub

\* rgx matched at the start of a line:
\* ^ *(?P<perc>\d+)% tests passed, +(?P<failed>\d+) +tests failed out of +(?P<total>\d+)
MatchSummary(line) ==
    LET no == [ ok |-> FALSE, perc |-> 0, failed |-> 0, total |-> 0 ]
        s1 == SkipSpaces(line)
        perc == TakeDigits(s1)
        s2 == Drop(s1, Len(perc))
        s3 == Drop(s2, Len(PASSED_LIT))
        s4 == SkipSpaces(s3)
        failed == TakeDigits(s4)
        s5 == Drop(s4, Len(failed))
        s6 == SkipSpaces(s5)
        s7 == Drop(s6, Len(FAILED_LIT))
        s8 == SkipSpaces(s7)
        total == TakeDigits(s8)
    IN  IF Len(perc) = 0 \/ ~ StartsWith(s2, PASSED_LIT) THEN no
        ELSE IF Len(s4) = Len(s3) \/ Len(failed) = 0 THEN no
        ELSE IF Len(s6) = Len(s5) \/ ~ StartsWith(s6, FAILED_LIT) THEN no
        ELSE IF Len(s8) = Len(s7) \/ Len(total) = 0 THEN no
        ELSE [ ok |-> TRUE, perc |-> ParseInt(perc, 0), failed |-> ParseInt(failed, 0),
               total |-> ParseInt(total, 0) ]

\* re.search(rgx, out, re.MULTILINE): the match on the first line that has one
RECURSIVE SearchSummary(_)
SearchSummary(out) ==
    IF Len(out) = 0 THEN [ ok |-> FALSE, perc |-> 0, failed |-> 0, total |-> 0 ]
    ELSE IF MatchSummary(Head(out)).ok THEN MatchSummary(Head(out))
    ELSE SearchSummary(Tail(out))

\* whether some entry of allow_fail occurs in the line
Allowed(line, allow_fail) == \E k \in 1..Len(allow_fail) : Contains(line, allow_fail[k])

RECURSIVE CollectFailures(_, _)
\* the '***Failed' lines of out that no entry of allow_fail occurs in, in order
CollectFailures(out, allow_fail) ==
    IF Len(out) = 0 THEN << >>
    ELSE (IF Contains(Head(out), FAILED_MARK) /\ ~ Allowed(Head(out), allow_fail)
          THEN << Head(out) >> ELSE << >>)
         \o CollectFailures(Tail(out), allow_fail)

\* a // b of Python, b # 0: the quotient rounded towards minus infinity
FloorDiv(a, b) == IF b > 0 THEN a \div b ELSE (0 - a) \div (0 - b)

Max(a, b) == IF a >= b THEN a ELSE b

\* Variant of Concurrent without the minimum of 1.
Concurrent_NoFloor(parallel, nprocs) == FloorDiv(parallel, nprocs)

\* max(1, parallel // nprocs)
Concurrent(parallel, nprocs) == Max(1, FloorDiv(parallel, nprocs))

CtestCmd(concurrent) == << << "ctest" >>, << "-j" >> \o FormatInt(concurrent), << "--output-on-failure" >> >>

ERR_ZERODIV == "ZeroDivisionError"
ERR_PARSE == "Failed to parse test suite output"
ERR_RATE == "Test suite failed with less than thr success rate"
ERR_COUNT == "Test suite failed with more than max_failed failures"

\* Variant of BelowThreshold that also rejects a rate equal to the threshold.
BelowThreshold_Inclusive(perc, thr) == perc * 10 <= thr

\* perc < thr, with perc = int(group('perc')) / 100 (true division) and thr given in
\* thousandths: two such decimals differ by at least 0.001 or are equal, so the
\* comparison of the floats is the comparison of the numbers
BelowThreshold(perc, thr) == perc * 10 < thr

TooManyFailures(num_fail, num_fail_thr) == num_fail > num_fail_thr

\* Variant of Judge without the 'if not mch' check: a missing summary counts as 0%.
Judge_NoParseCheck(i) ==
    LET mch == SearchSummary(i.out)
        fl == CollectFailures(i.out, i.allow_fail)
    IN  IF BelowThreshold(mch.perc, i.thr) THEN ERR_RATE
        ELSE IF TooManyFailures(Len(fl), i.max_failed) THEN ERR_COUNT
        ELSE "ok"

\* how test_step ends on the settings and harness output i, once ctest has run
Judge(i) ==
    LET mch == SearchSummary(i.out)
        fl == CollectFailures(i.out, i.allow_fail)
    IN  IF ~ mch.ok THEN ERR_PARSE
        ELSE IF BelowThreshold(mch.perc, i.thr) THEN ERR_RATE
        ELSE IF TooManyFailures(Len(fl), i.max_failed) THEN ERR_COUNT
        ELSE "ok"

\* One call of the test hook; i.out is what ctest prints.
TestStep(i) ==
    /\ tin' = i
    /\ op' = "test"
    /\ pre' = Snapshot
    /\ calls' = calls + 1
    /\ IF i.nprocs = 0
       THEN /\ result' = ERR_ZERODIV
            /\ cmd' = << >>
            /\ failures' = << >>
       ELSE /\ cmd' = CtestCmd(Concurrent(i.parallel, i.nprocs))
            /\ result' = Judge(i)
            /\ failures' = IF SearchSummary(i.out).ok
                           THEN CollectFailures(i.out, i.allow_fail) ELSE << >>
    /\ UNCHANGED << confVars, req, sanityVars >>

(***************************************************************************)
(* Harness output lines, allow-list entries and settings test_step is      *)
(* run on.                                                                 *)
(***************************************************************************)
L_SUM_74 ==
    << "7", "4", "%", " ", "t", "e", "s", "t", "s", " ", "p", "a", "s", "s", "e", "d",
       ",", " ", "1", "2", "4", " ", "t", "e", "s", "t", "s", " ", "f", "a", "i", "l",
       "e", "d", " ", "o", "u", "t", " ", "o", "f", " ", "4", "8", "1" >>

L_SUM_97 ==
    << "9", "7", "%", " ", "t", "e", "s", "t", "s", " ", "p", "a", "s", "s", "e", "d",
       ",", " ", "3", " ", "t", "e", "s", "t", "s", " ", "f", "a", "i", "l", "e", "d",
       " ", "o", "u", "t", " ", "o", "f", " ", "1", "0", "0" >>

\* a summary line with leading and repeated spaces
L_SUM_100 ==
    << " ", " ", "1", "0", "0", "%", " ", "t", "e", "s", "t", "s", " ", "p", "a", "s",
       "s", "e", "d", ",", " ", " ", "0", " ", " ", "t", "e", "s", "t", "s", " ", "f",
       "a", "i", "l", "e", "d", " ", "o", "u", "t", " ", "o", "f", " ", " ", "1", "0" >>

\* the summary text, but not at the start of the line
L_NOT_SUM ==
    << "T", "o", "t", "a", "l", ":", " ", "1", "0", "0", "%", " ", "t", "e", "s", "t",
       "s", " ", "p", "a", "s", "s", "e", "d", ",", " ", "0", " ", "t", "e", "s", "t",
       "s", " ", "f", "a", "i", "l", "e", "d", " ", "o", "u", "t", " ", "o", "f", " ",
       "1", "0" >>

L_FAIL_HP ==
    << "2", "/", "3", " ", "T", "e", "s", "t", " ", "#", "2", ":", " ", "s", "y", "s",
       "t", "e", "m", "-", "-", "h", "p", "_", "m", "e", "t", "a", "l", " ", ".", ".",
       ".", "*", "*", "*", "F", "a", "i", "l", "e", "d", " ", " ", "3", ".", "5", "2",
       " ", "s", "e", "c" >>

L_FAIL_PW ==
    << "3", "/", "3", " ", "T", "e", "s", "t", " ", "#", "3", ":", " ", "s", "y", "s",
       "t", "e", "m", "-", "-", "p", "w", "_", "s", "c", "f", " ", ".", ".", ".", "*",
       "*", "*", "F", "a", "i", "l", "e", "d", " ", " ", "1", ".", "1", "0", " ", "s",
       "e", "c" >>

L_PASS ==
    << "1", "/", "3", " ", "T", "e", "s", "t", " ", "#", "1", ":", " ", "s", "y", "s",
       "t", "e", "m", "-", "-", "p", "w", "_", "d", "f", "t", " ", ".", ".", ".", " ",
       " ", " ", "P", "a", "s", "s", "e", "d", " ", " ", "0", ".", "8", "0", " ", "s",
       "e", "c" >>

ALLOW_HP ==
    << "-", "-", "h", "p", "_" >>

ALLOW_PH ==
    << "-", "-", "p", "h", "_" >>

Lines == { L_SUM_74, L_SUM_97, L_SUM_100, L_NOT_SUM, L_FAIL_HP, L_FAIL_PW, L_PASS }

AllowLists == { << >>, << ALLOW_HP >>, << ALLOW_PH, ALLOW_HP >> }

\* test_suite_threshold in thousandths: the default 0.97, and 0.745
Thresholds == { 970, 745 }

TestInputs ==
    [ out : SeqsUpTo(Lines, MaxLines), allow_fail : AllowLists, thr : Thresholds,
      max_failed : { 0, 1 }, parallel : { 4 }, nprocs : { 1 } ]

BudgetInputs ==
    [ out : { << L_SUM_100 >>, << L_SUM_74, L_FAIL_PW >> }, allow_fail : { << >> },
      thr : { 970 }, max_failed : { 0, 1 },
      parallel : (0 - MaxParallel)..MaxParallel, nprocs : (0 - MaxNprocs)..MaxNprocs ]

(***************************************************************************)
(* SpecTest: one test_step call, for every harness output of up to         *)
(* MaxLines lines and every allow-list and threshold setting.              *)
(* SpecBudget: one test_step call, for every parallelism and divisor.      *)
(***************************************************************************)
NextTest == calls = 0 /\ \E i \in TestInputs : TestStep(i)

SpecTest == InitDefault /\ [][NextTest]_vars

NextBudget == calls = 0 /\ \E i \in BudgetInputs : TestStep(i)

SpecBudget == InitDefault /\ [][NextBudget]_vars

(***************************************************************************)
(* Spec: up to MaxCalls hook calls, in any order, on one instance; the     *)
(* configuration may change between calls (an iterated build).             *)
(***************************************************************************)
HookRequests ==
    { r \in Requests :
        /\ r.version \in { V_7_3, V_7_3_1 }
        /\ r.usempi /\ r.with_scalapack /\ ~ r.openmp /\ ~ r.with_cuda /\ ~ r.with_fox
        /\ r.deps = { } /\ r.comp_fam = INTELCOMP /\ r.test_suite_nprocs = 1 }

HookTargetLists == SeqsUpTo({ "cp", "pw", "pwall", "all_currents" }, 1)

HookTestInputs ==
    { i \in TestInputs :
        /\ i.out \in { << L_SUM_100 >>, << L_FAIL_PW, L_SUM_74 >> }
        /\ i.allow_fail = << >> /\ i.thr = 970 /\ i.max_failed = 0 }

Next ==
    /\ calls < MaxCalls
    /\ \/ \E r \in HookRequests : ConfigureStep(r)
       \/ \E i \in HookTestInputs : TestStep(i)
       \/ \E tgts \in HookTargetLists : SanityCheckStep(tgts)

Spec == InitDefault /\ [][Next]_vars

(***************************************************************************)
(* Properties.                                                             *)
(***************************************************************************)
\* the basenames of a list of 'bin/<name>' paths
BinSet(paths) == { paths[k][2] : k \in 1..Len(paths) }

\* the flag configure_step adds to LDFLAGS for shared builds with the Intel compilers
LinkWorkaround(r) ==
    IF r.build_shared_libs /\ r.comp_fam = INTELCOMP
    THEN << " -Wl,--copy-dt-needed-entries " >> ELSE << >>

\* C1: whenever configure_step aborts with a configuration error, configopts,
\* check_bins and LDFLAGS are exactly what they were before the call.
C1_AbortAppliesNothing ==
    (op = "configure" /\ result # "ok") =>
        /\ configopts = pre.configopts
        /\ check_bins = pre.check_bins
        /\ ldflags = pre.ldflags

\* The summary lines among Lines, with the percentage each states.
SummaryLines == { L_SUM_74, L_SUM_97, L_SUM_100 }

StatedPercent(line) ==
    CASE line = L_SUM_74 -> 74
      [] line = L_SUM_97 -> 97
      [] line = L_SUM_100 -> 100

HasSummary(out) == \E k \in 1..Len(out) : out[k] \in SummaryLines

\* the percentage of the first summary line of out
RawPercent(out) ==
    LET k == CHOOSE j \in 1..Len(out) :
                 /\ out[j] \in SummaryLines
                 /\ \A h \in 1..(j - 1) : out[h] \notin SummaryLines
    IN  StatedPercent(out[k])

\* the number of '***Failed' lines of out in which no entry of allow occurs
UnallowedCount(out, allow) ==
    Cardinality({ k \in 1..Len(out) :
                    /\ Contains(out[k], FAILED_MARK)
                    /\ \A a \in ToSet(allow) : ~ Contains(out[k], a) })

\* C2: for a harness output with a summary line, test_step fails if and only if
\* the summary's percentage is below test_suite_threshold or more than
\* test_suite_max_failed '***Failed' lines match no allow-list entry; a rate below
\* the threshold fails the run whatever the allow-list says.
C2_FailsIffRateOrCount ==
    (op = "test" /\ HasSummary(tin.out)) =>
        /\ (result # "ok") <=>
               \/ RawPercent(tin.out) * 10 < tin.thr
               \/ UnallowedCount(tin.out, tin.allow_fail) > tin.max_failed
        /\ (RawPercent(tin.out) * 10 < tin.thr) => result = ERR_RATE

\* C2 witness: the only failing line is allow-listed, yet the run fails on its rate.
C2_Witness ==
    /\ op = "test"
    /\ tin.out = << L_FAIL_HP, L_SUM_74 >>
    /\ tin.allow_fail = << ALLOW_HP >>
    /\ tin.max_failed = 0
    /\ failures = << >>
    /\ result = ERR_RATE

\* C3: the list of expected binaries handed to the sanity check names no
\* basename more than once.
C3_NoDuplicateBasename ==
    op = "sanity" =>
        \A i, j \in 1..Len(custom_paths) :
            i # j => custom_paths[i][2] # custom_paths[j][2]

AllCatalogBins ==
    UNION { ToSet(bins) : bins \in
              { CP_BINS, EPW_BINS, GWL_BINS, HP_BINS, LD1_BINS, NEB_BINS, PH_BINS, PP_BINS,
                PW_BINS, PWCOND_BINS, TDDFPT_BINS, UPF_BINS, XSPECTRA_BINS } }

\* C4 as stated: on a new instance, the expected binaries of the target lists []
\* and ["all"] are both the union of the binaries of every catalog entry.
C4_AllTokenSelectsEverything ==
    (op = "sanity" /\ pre.check_bins = << >> /\ targets \in { << >>, << "all" >> }) =>
        BinSet(custom_paths) = AllCatalogBins

\* C4 amended: on a new instance, the expected binaries of the target lists []
\* and ["all_currents"] are both the union of the binaries of every catalog entry.
C4_AllCurrentsSelectsEverything ==
    (op = "sanity" /\ pre.check_bins = << >>
        /\ targets \in { << >>, << "all_currents" >> }) =>
        BinSet(custom_paths) = AllCatalogBins

\* C4 witness: the target list ["all_currents"] on a new instance selects the whole catalog.
C4_Witness ==
    /\ op = "sanity"
    /\ pre.check_bins = << >>
    /\ targets = << "all_currents" >>
    /\ << "bin", "xspectra.x" >> \in ToSet(custom_paths)

\* the binaries the plugin flags of r add to check_bins
FlagExtras(r) ==
    (IF r.with_gipaw THEN { "gipaw.x" } ELSE { })
    \cup (IF r.with_d3q THEN ToSet(D3Q_BINS) ELSE { })
    \cup (IF r.with_qmcpack THEN { "pw2qmcpack.x" } ELSE { })

\* C5: a hook call carries no memory of earlier calls: every binary a
\* sanity_check_step call expects is implied by that call's targets or by the
\* plugin flags, and LDFLAGS after a successful configure_step holds the link
\* workaround at most once.
C5_NoCrossCallMemory ==
    /\ op = "sanity" =>
           BinSet(custom_paths) \subseteq
               (ToSet(sanity_check_step(<< >>, targets)) \cup FlagExtras(req))
    /\ (op = "configure" /\ result = "ok") => ldflags = LinkWorkaround(req)

AtLeast_7_3 == { V_7_3, V_7_3_1, V_7_4, V_7_10 }

\* C6 as stated: with ScaLAPACK requested and MPI disabled, configure_step fails
\* with the error citing the MPI requirement, for any version.
C6_AlwaysMpiError ==
    (op = "configure" /\ req.with_scalapack /\ ~ req.usempi) => result = ERR_MPI

\* C6 amended: with ScaLAPACK requested and MPI disabled, configure_step fails
\* with a configuration error: the one citing the MPI requirement for versions
\* from 7.3 on, the minimum-version error for versions below 7.3.
C6_MpiErrorFrom_7_3 ==
    (op = "configure" /\ req.with_scalapack /\ ~ req.usempi) =>
        result = IF req.version \in AtLeast_7_3 THEN ERR_MPI ELSE ERR_VERSION

\* C6 witness: ScaLAPACK without MPI on 7.10, with D3Q and ELPA also requested: the MPI error.
C6_Witness ==
    /\ op = "configure"
    /\ req.with_scalapack /\ ~ req.usempi
    /\ req.version = V_7_10
    /\ req.with_d3q /\ "ELPA" \in req.deps
    /\ result = ERR_MPI

\* C7: when no line of the harness output is a summary line, test_step fails
\* with the parse error, whatever the settings and the '***Failed' lines, and no
\* threshold is evaluated.
C7_NoSummaryIsParseError ==
    (op = "test" /\ ~ HasSummary(tin.out)) =>
        /\ result = ERR_PARSE
        /\ failures = << >>

\* C7 witness: failure lines and the summary text in mid-line, but no summary line.
C7_Witness ==
    /\ op = "test"
    /\ tin.out = << L_FAIL_PW, L_NOT_SUM >>
    /\ tin.max_failed = 1
    /\ result = ERR_PARSE

PwallSubTargets == { "ph", "pp", "pw", "neb", "pwcond" }

CatalogBins(t) ==
    CASE t = "ph" -> PH_BINS
      [] t = "pp" -> PP_BINS
      [] t = "pw" -> PW_BINS
      [] t = "neb" -> NEB_BINS
      [] t = "pwcond" -> PWCOND_BINS

\* C8: on a new instance, the expected binaries of ["pwall"] include the
\* expected binaries of each of ["ph"], ["pp"], ["pw"], ["neb"] and ["pwcond"].
C8_PwallCoversSubTargets ==
    (op = "sanity" /\ pre.check_bins = << >>) =>
        /\ targets = << "pwall" >> =>
               \A t \in PwallSubTargets : ToSet(CatalogBins(t)) \subseteq BinSet(custom_paths)
        /\ (\E t \in PwallSubTargets : targets = << t >>) =>
               /\ BinSet(custom_paths) = ToSet(CatalogBins(targets[1]))
               /\ BinSet(custom_paths) \subseteq ToSet(sanity_check_step(<< >>, << "pwall" >>))

\* C8 witness: ["pwall"] on a new instance expects the main binary of each sub-target.
C8_Witness ==
    /\ op = "sanity"
    /\ pre.check_bins = << >>
    /\ targets = << "pwall" >>
    /\ { "ph.x", "pp.x", "pw.x", "neb.x", "pwcond.x" } \subseteq BinSet(custom_paths)

\* q is a / b rounded down, b # 0
IsFloorQuotient(q, a, b) ==
    IF b > 0 THEN q * b <= a /\ a < (q + 1) * b
    ELSE q * b >= a /\ a > (q + 1) * b

\* the ctest command carries -j<n> with n the decimal number budget
PassesBudget(budget) ==
    /\ Len(cmd) = 3
    /\ cmd[1] = << "ctest" >>
    /\ Len(cmd[2]) >= 2
    /\ cmd[2][1] = "-j"
    /\ \A k \in 2..Len(cmd[2]) : IsDigit(cmd[2][k])
    /\ ParseInt(Tail(cmd[2]), 0) = budget

\* C9 as stated: for every integer parallelism and divisor, test_step passes a
\* budget of at least 1 to ctest as its -j argument.
C9_BudgetForEveryDivisor ==
    op = "test" => \E n \in 1..(MaxParallel + 1) : PassesBudget(n)

\* C9 amended: for every integer parallelism and every divisor other than 0,
\* test_step passes max(1, parallelism divided by the divisor, rounded down) to
\* ctest as its -j argument; with a divisor of 0 it ends in a ZeroDivisionError
\* before ctest runs.
C9_BudgetForNonZeroDivisor ==
    op = "test" =>
        IF tin.nprocs = 0 THEN result = ERR_ZERODIV /\ cmd = << >>
        ELSE \E q \in (0 - MaxParallel - 1)..(MaxParallel + 1) :
                 /\ IsFloorQuotient(q, tin.parallel, tin.nprocs)
                 /\ PassesBudget(IF q >= 1 THEN q ELSE 1)

\* C9 witness: parallelism 3 and divisor 2 give -j1.
C9_Witness ==
    /\ op = "test"
    /\ tin.parallel = 3 /\ tin.nprocs = 2
    /\ cmd[2] = << "-j", "1" >>

\* C10: no configure_step call with with_d3q set succeeds, so no build argument
\* ever names the d3q plugin and no D3Q binary is ever expected.
C10_D3qNeverConfigured ==
    /\ (op = "configure" /\ req.with_d3q) => result # "ok"
    /\ \A k \in 1..Len(configopts) : "d3q" \notin ToSet(configopts[k])
    /\ ToSet(check_bins) \cap ToSet(D3Q_BINS) = { }

\* C10 witness: D3Q requested on 7.3.1 with nothing else failing first: the D3Q error.
C10_Witness ==
    /\ op = "configure"
    /\ req.with_d3q /\ req.usempi /\ ~ req.with_gipaw
    /\ req.version = V_7_3_1
    /\ result = ERR_D3Q

============================================================================
